---- MODULE Spec2Model ----
(***************************************************************************)
(* deCONZ config flow (homeassistant/components/deconz/config_flow.py).   *)
(*                                                                         *)
(* Every flow instance is a DeconzFlowHandler object; the config entry    *)
(* store is shared by all of them.  One action is one invocation of a     *)
(* step handler by the flow manager, from its call to the form or the     *)
(* terminal result it returns.  The handlers await discovery,             *)
(* get_api_key and get_bridge_id, and other flow instances run during     *)
(* these awaits; no handler reads or writes the store before the last     *)
(* await it makes, so its effect on the store is the effect of the code   *)
(* after that await, which runs without suspension.  The results of the   *)
(* awaited calls are inputs of the action.                                *)
(*                                                                         *)
(* Spec is the pairing flow; SpecSeq and SpecConc are Spec with flow       *)
(* instances run one after the other, or all at the same time; SpecLive    *)
(* is Spec with a user who keeps submitting the link form; SpecOptions is  *)
(* the options flow (DeconzOptionsFlowHandler) of an entry.                *)
(***************************************************************************)
EXTENDS Integers, Sequences, FiniteSets, TLC

\* ---------------------------------------------------------------- bounds
NumFlows == 2          \* flow instances that are ever started

Flows == 1..NumFlows

\* ------------------------------------------------------------ value sets
EmptyStr == <<>>                 \* the Python string ""
None == <<"None">>               \* the Python value None (no unique id)
Unset == "unset"                 \* an attribute that was never assigned

Hosts == {"h1", "h2"}
Ports == {80, 8080}
Addrs == {<<"h1", 80>>, <<"h2", 8080>>}
Keys == {"K1", "K2"}

\* raw serials delivered by the announcement sources
Serials == {<<"a", "1">>, <<"A", ":", "1">>, <<"b", "2">>}
\* identifiers handed back by pydeconz discovery and get_bridge_id, as the
\* bridge reports them
BridgeIds == {<<"a", "1">>, <<"A", ":", "1">>, <<"b", "2">>}

CONF_MANUAL_INPUT == "Manually define gateway"
SOURCE_USER == "user"
SOURCE_REAUTH == "reauth"
SOURCE_SSDP == "ssdp"
SOURCE_HASSIO == "hassio"

CONF_ALLOW_CLIP_SENSOR == "allow_clip_sensor"
CONF_ALLOW_DECONZ_GROUPS == "allow_deconz_groups"
CONF_ALLOW_NEW_DEVICES == "allow_new_devices"
\* the options that the deconz_devices form has a field for
SchemaOptions == {CONF_ALLOW_CLIP_SENSOR, CONF_ALLOW_DECONZ_GROUPS, CONF_ALLOW_NEW_DEVICES}
\* an option of a config entry that the form has no field for
CONF_MASTER_GATEWAY == "master"
NoOptions == <<>>                \* the empty mapping {}
\* what the deconz_devices form submits: a value for each of its fields
Submissions == [SchemaOptions -> BOOLEAN]
NoSubmission == [k \in {"None"} |-> TRUE]   \* user_input is None, in an options flow
\* the options of an entry that no options flow has written yet
StoredOptions == {NoOptions, [k \in {CONF_MASTER_GATEWAY} |-> TRUE]}

\* what an awaited pydeconz call hands back: a value, or an exception
Ok(v) == [val |-> v]
Raise(e) == [err |-> e]
Raised(result) == "err" \in DOMAIN result

NegotiationErrors == {"LinkButtonNotPressed", "ResponseError", "RequestError", "TimeoutError"}
DiscoveryErrors == {"TimeoutError", "ResponseError"}

DiscoveredBridge == [id : BridgeIds, host : Hosts, port : Ports]
Bridge(id, addr) == [id |-> id, host |-> addr[1], port |-> addr[2]]
DiscoveryResults ==
    {<<>>,
     <<Bridge(<<"a", "1">>, <<"h1", 80>>), Bridge(<<"b", "2">>, <<"h2", 8080>>)>>}

DiscoveryOutcomes == {Ok(b) : b \in DiscoveryResults} \cup {Raise(e) : e \in DiscoveryErrors}
NegotiationOutcomes == {Ok(k) : k \in Keys} \cup {Raise(e) : e \in NegotiationErrors}
ResolutionOutcomes == {Ok(i) : i \in BridgeIds} \cup {Raise("TimeoutError")}
NoInput == "None"                \* user_input is None

\* ----------------------------------------------------------------- state
VARIABLES
    entries,   \* the config entries of the domain, in creation order
    flow       \* flow[f]: the handler object of flow instance f

vars == <<entries, flow>>

\* ------------------------------------------------------ identity normalizer
Lower(c) ==
    CASE c = "A" -> "a"
      [] c = "B" -> "b"
      [] OTHER -> c

IsSeparator(c) == c = ":"

normalize_bridge_id(raw) ==
    SelectSeq([i \in 1..Len(raw) |-> Lower(raw[i])], LAMBDA c : ~IsSeparator(c))

\* ------------------------------------------------------------ record store
\* a new config entry has no options
ConfigEntry(unique_id, title, source, data) ==
    [unique_id |-> unique_id, title |-> title, source |-> source, data |-> data,
     options |-> NoOptions]

\* index of the first entry registered under unique_id, 0 when there is none
FindEntry(es, unique_id) ==
    IF \E i \in 1..Len(es) : es[i].unique_id = unique_id
    THEN CHOOSE i \in 1..Len(es) :
            /\ es[i].unique_id = unique_id
            /\ \A j \in 1..(i - 1) : es[j].unique_id # unique_id
    ELSE 0

\* data = {**entry.data, **updates}
MergeData(data, updates) ==
    [k \in DOMAIN data |-> IF k \in DOMAIN updates THEN updates[k] ELSE data[k]]

async_update_entry(es, i, updates) ==
    [es EXCEPT ![i].data = MergeData(es[i].data, updates)]

\* ------------------------------------------------------------ flow results
\* pc is the step_id of the form the flow waits at, or the type of its
\* terminal result; caught is the except clause that the last handler
\* invocation ran; calls are the pydeconz calls the flow has made so far
NewFlow ==
    [pc |-> "init", source |-> "none", unique_id |-> None, bridge_id |-> EmptyStr,
     host |-> Unset, port |-> 0, api_key |-> Unset, bridges |-> <<>>,
     errors |-> "", reason |-> "", caught |-> "", calls |-> {}]

Out(fl, es) == [flow |-> fl, entries |-> es]

Called(fl, call) == [fl EXCEPT !.calls = @ \cup {call}]

Caught(fl, clause) == [fl EXCEPT !.caught = clause]

async_show_form(fl, step_id, errors) ==
    [fl EXCEPT !.pc = step_id, !.errors = errors]

async_abort(fl, reason) ==
    [fl EXCEPT !.pc = "abort", !.reason = reason]

async_create_entry(fl, es) ==
    Out([fl EXCEPT !.pc = "create_entry"],
        Append(es, ConfigEntry(fl.unique_id, fl.bridge_id, fl.source,
                               [host |-> fl.host, port |-> fl.port, api_key |-> fl.api_key])))

async_set_unique_id(fl, unique_id) ==
    [fl EXCEPT !.unique_id = unique_id]

\* TRUE when _abort_if_unique_id_configured raises
UniqueIdConfigured(fl, es) ==
    fl.unique_id # None /\ FindEntry(es, fl.unique_id) # 0

\* _abort_if_unique_id_configured(updates) on the raising path
abort_if_unique_id_configured(fl, es, updates) ==
    Out(async_abort(fl, "already_configured"),
        async_update_entry(es, FindEntry(es, fl.unique_id), updates))

\* ---------------------------------------------------------------- handlers
\* create_entry with a get_bridge_id timeout that falls through to the
\* creation of the entry
create_entry_TimeoutFallsThrough(fl, es, bridge_id) ==
    IF fl.bridge_id = EmptyStr
    THEN LET f0 == Called(fl, "get_bridge_id")
         IN  IF bridge_id = Raise("TimeoutError")
             THEN async_create_entry(Caught(f0, "get_bridge_id: TimeoutError"), es)
             ELSE LET f1 == async_set_unique_id([f0 EXCEPT !.bridge_id = bridge_id.val],
                                                bridge_id.val)
                  IN  IF UniqueIdConfigured(f1, es)
                      THEN abort_if_unique_id_configured(f1, es,
                               [host |-> f1.host, port |-> f1.port, api_key |-> f1.api_key])
                      ELSE async_create_entry(f1, es)
    ELSE async_create_entry(fl, es)

\* create_entry that asks the bridge for its id whether or not the flow has one
create_entry_AlwaysResolves(fl, es, bridge_id) ==
    LET f0 == Called(fl, "get_bridge_id")
    IN  IF fl.bridge_id = EmptyStr /\ bridge_id = Raise("TimeoutError")
        THEN Out(async_abort(Caught(f0, "get_bridge_id: TimeoutError"), "no_bridges"), es)
        ELSE LET id == IF fl.bridge_id = EmptyStr THEN bridge_id.val ELSE fl.bridge_id
                 f1 == async_set_unique_id([f0 EXCEPT !.bridge_id = id], id)
             IN  IF UniqueIdConfigured(f1, es)
                 THEN abort_if_unique_id_configured(f1, es,
                          [host |-> f1.host, port |-> f1.port, api_key |-> f1.api_key])
                 ELSE async_create_entry(f1, es)

\* create_entry that aborts with the reason of a failed get_api_key when
\* get_bridge_id times out
create_entry_TimeoutAsNoKey(fl, es, bridge_id) ==
    IF fl.bridge_id = EmptyStr
    THEN LET f0 == Called(fl, "get_bridge_id")
         IN  IF bridge_id = Raise("TimeoutError")
             THEN Out(async_abort(Caught(f0, "get_bridge_id: TimeoutError"), "no_key"), es)
             ELSE LET f1 == async_set_unique_id([f0 EXCEPT !.bridge_id = bridge_id.val],
                                                bridge_id.val)
                  IN  IF UniqueIdConfigured(f1, es)
                      THEN abort_if_unique_id_configured(f1, es,
                               [host |-> f1.host, port |-> f1.port, api_key |-> f1.api_key])
                      ELSE async_create_entry(f1, es)
    ELSE async_create_entry(fl, es)

\* bridge_id is the result of deconz_get_bridge_id, awaited only when the
\* flow has no bridge_id yet
create_entry(fl, es, bridge_id) ==
    IF fl.bridge_id = EmptyStr
    THEN LET f0 == Called(fl, "get_bridge_id")
         IN  IF bridge_id = Raise("TimeoutError")
             THEN Out(async_abort(Caught(f0, "get_bridge_id: TimeoutError"), "no_bridges"), es)
             ELSE LET f1 == async_set_unique_id([f0 EXCEPT !.bridge_id = bridge_id.val],
                                                bridge_id.val)
                  IN  IF UniqueIdConfigured(f1, es)
                      THEN abort_if_unique_id_configured(f1, es,
                               [host |-> f1.host, port |-> f1.port, api_key |-> f1.api_key])
                      ELSE async_create_entry(f1, es)
    ELSE async_create_entry(fl, es)

\* async_step_link that reports a link button that was not pressed as no_key
async_step_link_ButtonAsNoKey(fl, es, user_input, api_key, bridge_id) ==
    IF user_input # NoInput
    THEN LET f0 == Called(fl, "get_api_key")
         IN  IF Raised(api_key)
             THEN Out(async_show_form(
                          Caught(f0, "get_api_key: ResponseError, RequestError, TimeoutError"),
                          "link", "no_key"), es)
             ELSE create_entry([f0 EXCEPT !.api_key = api_key.val], es, bridge_id)
    ELSE Out(async_show_form(fl, "link", ""), es)

\* async_step_link that gives up when get_api_key times out
async_step_link_TimeoutAborts(fl, es, user_input, api_key, bridge_id) ==
    IF user_input # NoInput
    THEN LET f0 == Called(fl, "get_api_key")
         IN  IF api_key = Raise("LinkButtonNotPressed")
             THEN Out(async_show_form(Caught(f0, "get_api_key: LinkButtonNotPressed"),
                                      "link", "linking_not_possible"), es)
             ELSE IF api_key \in {Raise("ResponseError"), Raise("RequestError")}
                  THEN Out(async_show_form(
                               Caught(f0, "get_api_key: ResponseError, RequestError, TimeoutError"),
                               "link", "no_key"), es)
                  ELSE IF Raised(api_key)
                       THEN Out(async_abort(f0, "no_key"), es)
                       ELSE create_entry([f0 EXCEPT !.api_key = api_key.val], es, bridge_id)
    ELSE Out(async_show_form(fl, "link", ""), es)

\* async_step_link that shows the link form again when get_api_key has
\* returned a key
async_step_link_NeverCommits(fl, es, user_input, api_key, bridge_id) ==
    IF user_input # NoInput
    THEN LET f0 == Called(fl, "get_api_key")
         IN  IF api_key = Raise("LinkButtonNotPressed")
             THEN Out(async_show_form(Caught(f0, "get_api_key: LinkButtonNotPressed"),
                                      "link", "linking_not_possible"), es)
             ELSE IF api_key \in {Raise("ResponseError"), Raise("RequestError"),
                                  Raise("TimeoutError")}
                  THEN Out(async_show_form(
                               Caught(f0, "get_api_key: ResponseError, RequestError, TimeoutError"),
                               "link", "no_key"), es)
                  ELSE Out(async_show_form([f0 EXCEPT !.api_key = api_key.val], "link", ""), es)
    ELSE Out(async_show_form(fl, "link", ""), es)

\* async_step_link that does not keep the key that get_api_key returns
async_step_link_DropsApiKey(fl, es, user_input, api_key, bridge_id) ==
    IF user_input # NoInput
    THEN LET f0 == Called(fl, "get_api_key")
         IN  IF api_key = Raise("LinkButtonNotPressed")
             THEN Out(async_show_form(Caught(f0, "get_api_key: LinkButtonNotPressed"),
                                      "link", "linking_not_possible"), es)
             ELSE IF api_key \in {Raise("ResponseError"), Raise("RequestError"),
                                  Raise("TimeoutError")}
                  THEN Out(async_show_form(
                               Caught(f0, "get_api_key: ResponseError, RequestError, TimeoutError"),
                               "link", "no_key"), es)
                  ELSE create_entry(f0, es, bridge_id)
    ELSE Out(async_show_form(fl, "link", ""), es)

\* api_key is the result of get_api_key, awaited only with a user_input
async_step_link(fl, es, user_input, api_key, bridge_id) ==
    IF user_input # NoInput
    THEN LET f0 == Called(fl, "get_api_key")
         IN  IF api_key = Raise("LinkButtonNotPressed")
             THEN Out(async_show_form(Caught(f0, "get_api_key: LinkButtonNotPressed"),
                                      "link", "linking_not_possible"), es)
             ELSE IF api_key \in {Raise("ResponseError"), Raise("RequestError"),
                                  Raise("TimeoutError")}
                  THEN Out(async_show_form(
                               Caught(f0, "get_api_key: ResponseError, RequestError, TimeoutError"),
                               "link", "no_key"), es)
                  ELSE create_entry([f0 EXCEPT !.api_key = api_key.val], es, bridge_id)
    ELSE Out(async_show_form(fl, "link", ""), es)

async_step_manual_input(fl, es, user_input) ==
    IF user_input # NoInput
    THEN async_step_link([fl EXCEPT !.host = user_input[1], !.port = user_input[2]],
                         es, NoInput, NoInput, NoInput)
    ELSE Out(async_show_form(fl, "manual_input", ""), es)

\* index of the first discovered bridge at host, 0 when there is none
FirstBridge(bridges, host) ==
    IF \E i \in 1..Len(bridges) : bridges[i].host = host
    THEN CHOOSE i \in 1..Len(bridges) :
            /\ bridges[i].host = host
            /\ \A j \in 1..(i - 1) : bridges[j].host # host
    ELSE 0

\* user_discovery with a failed discovery that ends the flow
user_discovery_AbortsOnError(fl, es, discovered) ==
    LET f0 == Called(fl, "discovery")
    IN  IF discovered \in {Raise("TimeoutError"), Raise("ResponseError")}
        THEN Out(async_abort(Caught(f0, "discovery: TimeoutError, ResponseError"),
                             "no_bridges"), es)
        ELSE IF discovered.val # <<>>
             THEN Out(async_show_form([f0 EXCEPT !.bridges = discovered.val], "user", ""), es)
             ELSE async_step_manual_input([f0 EXCEPT !.bridges = discovered.val], es, NoInput)

\* the part of async_step_user that runs deconz_discovery
user_discovery(fl, es, discovered) ==
    LET f0 == Called(fl, "discovery")
        f1 == IF discovered \in {Raise("TimeoutError"), Raise("ResponseError")}
              THEN [Caught(f0, "discovery: TimeoutError, ResponseError") EXCEPT !.bridges = <<>>]
              ELSE [f0 EXCEPT !.bridges = discovered.val]
    IN  IF f1.bridges # <<>>
        THEN Out(async_show_form(f1, "user", ""), es)
        ELSE async_step_manual_input(f1, es, NoInput)

\* user_input is the chosen host; discovered is the result of
\* deconz_discovery, awaited unless the input selects a step to go to
async_step_user(fl, es, user_input, discovered) ==
    IF user_input # NoInput /\ user_input = CONF_MANUAL_INPUT
    THEN async_step_manual_input(fl, es, NoInput)
    ELSE IF user_input # NoInput /\ FirstBridge(fl.bridges, user_input) # 0
         THEN LET b == fl.bridges[FirstBridge(fl.bridges, user_input)]
              IN  async_step_link([fl EXCEPT !.bridge_id = b.id, !.host = b.host,
                                             !.port = b.port],
                                  es, NoInput, NoInput, NoInput)
         ELSE user_discovery(fl, es, discovered)

\* async_step_reauth that asks for host and port again
async_step_reauth_AsksAddress(fl, es, entry_data) ==
    async_step_manual_input(fl, es, NoInput)

async_step_reauth(fl, es, entry_data) ==
    async_step_link([fl EXCEPT !.host = entry_data.host, !.port = entry_data.port],
                    es, NoInput, NoInput, NoInput)

\* async_step_ssdp without the precedence of an entry set up by hassio
async_step_ssdp_NoHassioPrecedence(fl, es, serial, host, port) ==
    LET f1 == async_set_unique_id([fl EXCEPT !.bridge_id = normalize_bridge_id(serial)],
                                  normalize_bridge_id(serial))
        f2 == [f1 EXCEPT !.host = host, !.port = port]
    IN  IF UniqueIdConfigured(f2, es)
        THEN abort_if_unique_id_configured(f2, es, [host |-> host, port |-> port])
        ELSE async_step_link(f2, es, NoInput, NoInput, NoInput)

\* async_step_ssdp that goes on to the link form unless hassio has set up
\* the entry
async_step_ssdp_OnlyHassioAborts(fl, es, serial, host, port) ==
    LET f1 == async_set_unique_id([fl EXCEPT !.bridge_id = normalize_bridge_id(serial)],
                                  normalize_bridge_id(serial))
        i == FindEntry(es, f1.unique_id)
    IN  IF i # 0 /\ es[i].source = SOURCE_HASSIO
        THEN Out(async_abort(f1, "already_configured"), es)
        ELSE async_step_link([f1 EXCEPT !.host = host, !.port = port],
                             es, NoInput, NoInput, NoInput)

\* async_step_ssdp that passes the api key of the flow, which it does not
\* have, along with host and port
async_step_ssdp_UpdatesApiKey(fl, es, serial, host, port) ==
    LET f1 == async_set_unique_id([fl EXCEPT !.bridge_id = normalize_bridge_id(serial)],
                                  normalize_bridge_id(serial))
        i == FindEntry(es, f1.unique_id)
    IN  IF i # 0 /\ es[i].source = SOURCE_HASSIO
        THEN Out(async_abort(f1, "already_configured"), es)
        ELSE LET f2 == [f1 EXCEPT !.host = host, !.port = port]
             IN  IF UniqueIdConfigured(f2, es)
                 THEN abort_if_unique_id_configured(f2, es,
                          [host |-> host, port |-> port, api_key |-> f2.api_key])
                 ELSE async_step_link(f2, es, NoInput, NoInput, NoInput)

async_step_ssdp(fl, es, serial, host, port) ==
    LET f1 == async_set_unique_id([fl EXCEPT !.bridge_id = normalize_bridge_id(serial)],
                                  normalize_bridge_id(serial))
        i == FindEntry(es, f1.unique_id)
    IN  IF i # 0 /\ es[i].source = SOURCE_HASSIO
        THEN Out(async_abort(f1, "already_configured"), es)
        ELSE LET f2 == [f1 EXCEPT !.host = host, !.port = port]
             IN  IF UniqueIdConfigured(f2, es)
                 THEN abort_if_unique_id_configured(f2, es, [host |-> host, port |-> port])
                 ELSE async_step_link(f2, es, NoInput, NoInput, NoInput)

\* async_step_hassio_confirm that sends a confirmed discovery to the link step
async_step_hassio_confirm_ToLink(fl, es, user_input, bridge_id) ==
    IF user_input # NoInput
    THEN async_step_link(fl, es, NoInput, NoInput, NoInput)
    ELSE Out(async_show_form(fl, "hassio_confirm", ""), es)

\* async_step_hassio_confirm that registers the entry when it shows the form
async_step_hassio_confirm_CreatesAtForm(fl, es, user_input, bridge_id) ==
    IF user_input # NoInput
    THEN create_entry(fl, es, bridge_id)
    ELSE Out(async_show_form(fl, "hassio_confirm", ""), async_create_entry(fl, es).entries)

async_step_hassio_confirm(fl, es, user_input, bridge_id) ==
    IF user_input # NoInput
    THEN create_entry(fl, es, bridge_id)
    ELSE Out(async_show_form(fl, "hassio_confirm", ""), es)

\* async_step_hassio that leaves the api key out of the updates
async_step_hassio_KeepsApiKey(fl, es, serial, host, port, api_key) ==
    LET f1 == async_set_unique_id([fl EXCEPT !.bridge_id = normalize_bridge_id(serial)],
                                  normalize_bridge_id(serial))
        f2 == [f1 EXCEPT !.host = host, !.port = port, !.api_key = api_key]
    IN  IF UniqueIdConfigured(f2, es)
        THEN abort_if_unique_id_configured(f2, es, [host |-> host, port |-> port])
        ELSE async_step_hassio_confirm(f2, es, NoInput, NoInput)

async_step_hassio(fl, es, serial, host, port, api_key) ==
    LET f1 == async_set_unique_id([fl EXCEPT !.bridge_id = normalize_bridge_id(serial)],
                                  normalize_bridge_id(serial))
        f2 == [f1 EXCEPT !.host = host, !.port = port, !.api_key = api_key]
    IN  IF UniqueIdConfigured(f2, es)
        THEN abort_if_unique_id_configured(f2, es,
                 [host |-> host, port |-> port, api_key |-> api_key])
        ELSE async_step_hassio_confirm(f2, es, NoInput, NoInput)

\* ------------------------------------------------------------ options flow
\* the DeconzOptionsFlowHandler object of the options flow for entry i
DeconzOptionsFlowHandler(es, i) ==
    [pc |-> "init", config_entry |-> i, options |-> es[i].options,
     errors |-> "", calls |-> {}]

\* dict.update
Update(options, user_input) ==
    [k \in DOMAIN options \cup DOMAIN user_input |->
        IF k \in DOMAIN user_input THEN user_input[k] ELSE options[k]]

\* the options flow manager stores the data of the result as the options of
\* the entry
options_create_entry(fl, es, data) ==
    Out([fl EXCEPT !.pc = "create_entry"], [es EXCEPT ![fl.config_entry].options = data])

\* async_step_deconz_devices that stores the submitted values only
async_step_deconz_devices_SubmissionOnly(fl, es, user_input) ==
    IF user_input # NoSubmission
    THEN options_create_entry([fl EXCEPT !.options = user_input], es, user_input)
    ELSE Out(async_show_form(fl, "deconz_devices", ""), es)

async_step_deconz_devices(fl, es, user_input) ==
    IF user_input # NoSubmission
    THEN LET f1 == [fl EXCEPT !.options = Update(fl.options, user_input)]
         IN  options_create_entry(f1, es, f1.options)
    ELSE Out(async_show_form(fl, "deconz_devices", ""), es)

async_step_init(fl, es, user_input) ==
    async_step_deconz_devices(fl, es, NoSubmission)

\* ------------------------------------------------------------------ actions
Terminal(fl) == fl.pc \in {"abort", "create_entry"}

InProgress(fl) == fl.pc # "init" /\ ~Terminal(fl)

\* the flow manager drops the handler object once a step returns a terminal
\* result; the result, the source and the unique id of its context remain
Finished(fl) ==
    IF Terminal(fl)
    THEN [fl EXCEPT !.host = Unset, !.port = 0, !.api_key = Unset,
                    !.bridges = <<>>, !.errors = ""]
    ELSE fl

\* the flow manager calls a step handler of flow instance f and takes its result
Handle(f, out) ==
    /\ flow' = [flow EXCEPT ![f] = Finished(out.flow)]
    /\ entries' = out.entries

\* a new flow instance, initialised with the source of its trigger;
\* instances are numbered in the order in which they are started
CanStart(f) ==
    /\ flow[f].pc = "init"
    /\ \A g \in 1..(f - 1) : flow[g].pc # "init"

Started(f, source) == [flow[f] EXCEPT !.source = source]

\* the handler of a flow instance that waits at a form is called again
Resumed(f) == [flow[f] EXCEPT !.caught = ""]

\* the outcomes of the calls a handler awaits: a call that is not made has
\* no outcome
ResolutionAwaited(fl) ==
    IF fl.bridge_id = EmptyStr THEN ResolutionOutcomes ELSE {NoInput}

DiscoveryAwaited(fl, user_input) ==
    IF user_input = CONF_MANUAL_INPUT \/ FirstBridge(fl.bridges, user_input) # 0
    THEN {NoInput}
    ELSE DiscoveryOutcomes

Init ==
    /\ entries = <<>>
    /\ flow = [f \in Flows |-> NewFlow]

StartUser(f) ==
    /\ CanStart(f)
    /\ \E discovered \in DiscoveryOutcomes :
        Handle(f, async_step_user(Started(f, SOURCE_USER), entries, NoInput, discovered))

UserChoose(f) ==
    /\ flow[f].pc = "user"
    /\ \E host \in {flow[f].bridges[i].host : i \in 1..Len(flow[f].bridges)}
                   \cup {CONF_MANUAL_INPUT} :
        \E discovered \in DiscoveryAwaited(flow[f], host) :
            Handle(f, async_step_user(Resumed(f), entries, host, discovered))

ManualSubmit(f) ==
    /\ flow[f].pc = "manual_input"
    /\ \E a \in Addrs :
        Handle(f, async_step_manual_input(Resumed(f), entries, a))

LinkSubmit(f) ==
    /\ flow[f].pc = "link"
    /\ \E api_key \in NegotiationOutcomes :
        \E bridge_id \in IF Raised(api_key) THEN {NoInput} ELSE ResolutionAwaited(flow[f]) :
            Handle(f, async_step_link(Resumed(f), entries, "submit", api_key, bridge_id))

StartReauth(f) ==
    /\ CanStart(f)
    /\ \E i \in 1..Len(entries) :
        Handle(f, async_step_reauth(Started(f, SOURCE_REAUTH), entries, entries[i].data))

StartSsdp(f) ==
    /\ CanStart(f)
    /\ \E serial \in Serials, a \in Addrs :
        Handle(f, async_step_ssdp(Started(f, SOURCE_SSDP), entries, serial, a[1], a[2]))

StartHassio(f) ==
    /\ CanStart(f)
    /\ \E serial \in Serials, a \in Addrs, k \in Keys :
        Handle(f, async_step_hassio(Started(f, SOURCE_HASSIO), entries, serial, a[1], a[2], k))

HassioConfirm(f) ==
    /\ flow[f].pc = "hassio_confirm"
    /\ \E bridge_id \in ResolutionAwaited(flow[f]) :
        Handle(f, async_step_hassio_confirm(Resumed(f), entries, "submit", bridge_id))

Next ==
    \E f \in Flows :
        \/ StartUser(f)
        \/ UserChoose(f)
        \/ ManualSubmit(f)
        \/ LinkSubmit(f)
        \/ StartReauth(f)
        \/ StartSsdp(f)
        \/ StartHassio(f)
        \/ HassioConfirm(f)

Spec == Init /\ [][Next]_vars

\* the submission of the link form of flow instance f in which get_api_key
\* returns a key
LinkSucceeds(f) ==
    /\ flow[f].pc = "link"
    /\ \E k \in Keys : \E bridge_id \in ResolutionAwaited(flow[f]) :
        Handle(f, async_step_link(Resumed(f), entries, "submit", Ok(k), bridge_id))

\* the user keeps submitting the link form and get_api_key does not fail
\* for ever
SpecLive == Spec /\ \A f \in Flows : WF_vars(LinkSucceeds(f))

\* flow instances that run one after the other: a flow instance is started
\* only when no other one is in progress
Sequential ==
    \A f \in Flows :
        (flow[f].pc = "init" /\ flow'[f].pc # "init")
            => \A g \in Flows : ~InProgress(flow[g])

NextSeq == Next /\ Sequential

SpecSeq == Init /\ [][NextSeq]_vars

\* flow instances that run concurrently: a flow instance is started only
\* while every flow instance started before it is still in progress
Concurrent ==
    \A f \in Flows :
        (flow[f].pc = "init" /\ flow'[f].pc # "init")
            => \A g \in Flows : ~Terminal(flow[g])

NextConc == Next /\ Concurrent

SpecConc == Init /\ [][NextConc]_vars

\* the options flows of a config entry that a pairing flow has created
StoredEntry(options) ==
    [ConfigEntry(<<"a", "1">>, <<"a", "1">>, SOURCE_USER,
                 [host |-> "h1", port |-> 80, api_key |-> "K1"])
        EXCEPT !.options = options]

InitOptions ==
    /\ entries \in {<<StoredEntry(o)>> : o \in StoredOptions}
    /\ flow = [f \in Flows |-> [pc |-> "init"]]

HandleOptions(f, out) ==
    /\ flow' = [flow EXCEPT ![f] = out.flow]
    /\ entries' = out.entries

OptionsInit(f) ==
    /\ CanStart(f)
    /\ \E i \in 1..Len(entries) :
        HandleOptions(f, async_step_init(DeconzOptionsFlowHandler(entries, i), entries, NoSubmission))

OptionsSubmit(f) ==
    /\ flow[f].pc = "deconz_devices"
    /\ \E user_input \in Submissions :
        HandleOptions(f, async_step_deconz_devices(flow[f], entries, user_input))

NextOptions ==
    \E f \in Flows :
        \/ OptionsInit(f)
        \/ OptionsSubmit(f)

SpecOptions == InitOptions /\ [][NextOptions]_vars

\* -------------------------------------------------------------- properties
\* the bridge a config entry stands for: every entry is created with the
\* bridge id of its flow as title
CanonicalIdentity(entry) == entry.title

RecordsFor(es, id) == {i \in 1..Len(es) : CanonicalIdentity(es[i]) = id}

EntryData(host, port, api_key) == [host |-> host, port |-> port, api_key |-> api_key]

\* C1: after any sequence of pairing flows the store holds at most one
\* config entry per canonical identity
C1_AtMostOneRecordPerIdentity ==
    \A id \in BridgeIds : Cardinality(RecordsFor(entries, id)) <= 1

\* the identity a flow instance commits for when its handler reaches
\* _create_entry with the result out
CommitIdentity(out) ==
    IF out.flow.pc = "create_entry" THEN out.flow.bridge_id ELSE out.flow.unique_id

\* the commit of a flow that carries host, port and api_key, for an identity
\* that has an entry, leaves one entry with these values and aborts
UpdatesInPlace(es, out, host, port, api_key) ==
    (out.flow.reason # "no_bridges" /\ RecordsFor(es, CommitIdentity(out)) # {})
        => /\ out.flow.pc = "abort"
           /\ out.flow.reason = "already_configured"
           /\ \E i \in 1..Len(out.entries) :
                /\ RecordsFor(out.entries, CommitIdentity(out)) = {i}
                /\ out.entries[i].data = EntryData(host, port, api_key)

\* C2: when a flow instance reaches the commit step for an identity that a
\* flow before it has committed, one entry for the identity exists afterwards,
\* it holds the host, port and credential of the second flow, and the second
\* flow aborts with already_configured
C2_SecondCommitUpdatesInPlace ==
    \A f \in Flows :
        /\ flow[f].pc = "link" =>
              \A k \in Keys : \A b \in ResolutionAwaited(flow[f]) :
                  UpdatesInPlace(entries,
                      async_step_link(Resumed(f), entries, "submit", Ok(k), b),
                      flow[f].host, flow[f].port, k)
        /\ flow[f].pc = "hassio_confirm" =>
              \A b \in ResolutionAwaited(flow[f]) :
                  UpdatesInPlace(entries,
                      async_step_hassio_confirm(Resumed(f), entries, "submit", b),
                      flow[f].host, flow[f].port, flow[f].api_key)

\* C3: of two flow instances that run concurrently and target the same
\* identity, at most one creates a config entry for it
C3_ConcurrentFlowsCreateOnce ==
    \A f, g \in Flows :
        (/\ f # g
         /\ flow[f].pc = "create_entry"
         /\ flow[g].pc = "create_entry")
            => flow[f].bridge_id # flow[g].bridge_id

HassioRecords(es, id) ==
    {i \in 1..Len(es) : es[i].unique_id = id /\ es[i].source = SOURCE_HASSIO}

SameRecords(es1, es2, which) ==
    /\ Len(es1) = Len(es2)
    /\ \A i \in which : es1[i] = es2[i]

\* what async_step_ssdp does when flow instance f is started with an
\* announcement of serial at address a, and hassio has set up an entry for
\* the identity
SsdpYieldsToHassio(f, serial, a) ==
    LET id == normalize_bridge_id(serial)
        out == async_step_ssdp(Started(f, SOURCE_SSDP), entries, serial, a[1], a[2])
    IN  HassioRecords(entries, id) # {}
            => /\ out.flow.pc = "abort"
               /\ out.flow.reason = "already_configured"
               /\ out.flow.calls = {}
               /\ SameRecords(out.entries, entries, HassioRecords(entries, id))

\* C4: a network announcement for an identity that has an entry set up by
\* hassio aborts at once with already_configured, makes no get_api_key call
\* and leaves the host, port and credential of that entry as they are
C4_SsdpAbortsOnHassioRecord ==
    \A f \in Flows :
        CanStart(f) => \A serial \in Serials, a \in Addrs : SsdpYieldsToHassio(f, serial, a)

C4_Witness ==
    \E f \in Flows :
        /\ flow[f].source = SOURCE_SSDP
        /\ flow[f].pc = "abort"
        /\ flow[f].reason = "already_configured"
        /\ flow[f].calls = {}
        /\ HassioRecords(entries, flow[f].unique_id) # {}

\* what async_step_hassio does when flow instance f is started with an
\* announcement for an identity that has an entry set up by hassio: the
\* original reading
HassioYieldsToHassio(f, serial, a, k) ==
    LET id == normalize_bridge_id(serial)
        out == async_step_hassio(Started(f, SOURCE_HASSIO), entries, serial, a[1], a[2], k)
    IN  HassioRecords(entries, id) # {}
            => /\ out.flow.pc = "abort"
               /\ SameRecords(out.entries, entries, HassioRecords(entries, id))

\* C5 as stated: every announcement, the hassio announcement included, for an
\* identity that has an entry set up by hassio aborts and leaves the host,
\* port and credential of that entry as they were
C5_AnnouncementKeepsHassioRecord ==
    \A f \in Flows :
        CanStart(f) =>
            \A serial \in Serials, a \in Addrs :
                /\ SsdpYieldsToHassio(f, serial, a)
                /\ \A k \in Keys : HassioYieldsToHassio(f, serial, a, k)

\* a hassio announcement for an identity that has an entry aborts with
\* already_configured and writes the announced host, port and credential
\* into the entry that the lookup finds
HassioRefreshesRecord(f, serial, a, k) ==
    LET id == normalize_bridge_id(serial)
        i == FindEntry(entries, id)
        out == async_step_hassio(Started(f, SOURCE_HASSIO), entries, serial, a[1], a[2], k)
    IN  i # 0
            => /\ out.flow.pc = "abort"
               /\ out.flow.reason = "already_configured"
               /\ out.flow.calls = {}
               /\ out.entries = [entries EXCEPT ![i].data = EntryData(a[1], a[2], k)]

\* C5 as amended: a network announcement for an identity that has an entry
\* set up by hassio aborts and leaves that entry as it was; a hassio
\* announcement for an identity that has an entry aborts as well, after it
\* has overwritten the host, port and credential of the entry
C5_OnlySsdpKeepsHassioRecord ==
    \A f \in Flows :
        CanStart(f) =>
            \A serial \in Serials, a \in Addrs :
                /\ SsdpYieldsToHassio(f, serial, a)
                /\ \A k \in Keys : HassioRefreshesRecord(f, serial, a, k)

C5_Witness ==
    \E f \in Flows :
        /\ flow[f].source = SOURCE_HASSIO
        /\ flow[f].pc = "abort"
        /\ flow[f].reason = "already_configured"
        /\ flow[f].calls = {}
        /\ HassioRecords(entries, flow[f].unique_id) # {}

\* C6: when get_bridge_id times out after get_api_key has returned a key,
\* the flow aborts with no_bridges and the store is as it was
C6_ResolveTimeoutAborts ==
    \A f \in Flows :
        (flow[f].pc = "link" /\ flow[f].bridge_id = EmptyStr)
            => \A k \in Keys :
                LET out == async_step_link(Resumed(f), entries, "submit", Ok(k),
                                           Raise("TimeoutError"))
                IN  /\ out.flow.pc = "abort"
                    /\ out.flow.reason = "no_bridges"
                    /\ out.entries = entries

C6_Witness ==
    \E f \in Flows :
        /\ flow[f].pc = "abort"
        /\ flow[f].reason = "no_bridges"
        /\ flow[f].caught = "get_bridge_id: TimeoutError"
        /\ {"get_api_key", "get_bridge_id"} \subseteq flow[f].calls

\* the session of a flow instance: what its later steps work with
Session(fl) ==
    [host |-> fl.host, port |-> fl.port, bridge_id |-> fl.bridge_id,
     unique_id |-> fl.unique_id, api_key |-> fl.api_key, source |-> fl.source]

\* the flow at the link form as it is when the form is shown first
FirstAttempt(fl) ==
    [fl EXCEPT !.errors = "", !.caught = "", !.calls = @ \ {"get_api_key"}]

\* the outcome of a handler invocation as the caller and the store see it
Outcome(out) ==
    [pc |-> out.flow.pc, reason |-> out.flow.reason, session |-> Session(out.flow),
     entries |-> out.entries]

\* C7: when get_api_key raises LinkButtonNotPressed the link form is shown
\* again with linking_not_possible, host and port of the session and the
\* store are as they were, and a key that get_api_key returns on a
\* submission of that form takes the flow to the commit, as it does on a
\* first submission
C7_ButtonNotPressedReprompts ==
    \A f \in Flows :
        flow[f].pc = "link" =>
            /\ LET out == async_step_link(Resumed(f), entries, "submit",
                                          Raise("LinkButtonNotPressed"), NoInput)
               IN  /\ out.flow.pc = "link"
                   /\ out.flow.errors = "linking_not_possible"
                   /\ Session(out.flow) = Session(flow[f])
                   /\ out.entries = entries
            /\ flow[f].errors = "linking_not_possible" =>
                  \A k \in Keys : \A b \in ResolutionAwaited(flow[f]) :
                      LET out == async_step_link(Resumed(f), entries, "submit", Ok(k), b)
                          first == async_step_link(FirstAttempt(flow[f]), entries,
                                                   "submit", Ok(k), b)
                      IN  /\ Terminal(out.flow)
                          /\ Outcome(out) = Outcome(first)

C7_Witness ==
    \E f \in Flows :
        /\ flow[f].pc = "link"
        /\ flow[f].errors = "linking_not_possible"
        /\ flow[f].caught = "get_api_key: LinkButtonNotPressed"
        /\ flow[f].host \in Hosts
        /\ \E k \in Keys : \E b \in ResolutionAwaited(flow[f]) :
            async_step_link(Resumed(f), entries, "submit", Ok(k), b).flow.pc = "create_entry"

\* C8: when get_api_key raises ResponseError or RequestError or times out,
\* the flow does not abort: the link form is shown again with no_key, which
\* is not the reason of a button that was not pressed, and the form can be
\* submitted again, whatever the number of failures before (the form shown
\* again is a state this property holds in as well)
C8_NegotiationErrorReprompts ==
    \A f \in Flows :
        flow[f].pc = "link" =>
            /\ \A e \in NegotiationErrors \ {"LinkButtonNotPressed"} :
                LET out == async_step_link(Resumed(f), entries, "submit", Raise(e), NoInput)
                    button == async_step_link(Resumed(f), entries, "submit",
                                              Raise("LinkButtonNotPressed"), NoInput)
                IN  /\ out.flow.pc = "link"
                    /\ out.flow.errors = "no_key"
                    /\ out.flow.errors # button.flow.errors
                    /\ Session(out.flow) = Session(flow[f])
                    /\ out.entries = entries

C8_Witness ==
    \E f \in Flows :
        /\ flow[f].pc = "link"
        /\ flow[f].errors = "no_key"
        /\ flow[f].caught = "get_api_key: ResponseError, RequestError, TimeoutError"

\* C9: when deconz_discovery times out or raises ResponseError in a user
\* flow, the list of bridges is empty and the manual_input form is shown;
\* the flow does not abort
C9_DiscoveryFailureToManualInput ==
    \A f \in Flows :
        CanStart(f) =>
            \A e \in DiscoveryErrors :
                LET out == async_step_user(Started(f, SOURCE_USER), entries, NoInput, Raise(e))
                IN  /\ out.flow.pc = "manual_input"
                    /\ out.flow.bridges = <<>>
                    /\ out.flow.errors = ""
                    /\ out.entries = entries

C9_Witness ==
    \E f \in Flows :
        /\ flow[f].source = SOURCE_USER
        /\ flow[f].pc = "manual_input"
        /\ flow[f].caught = "discovery: TimeoutError, ResponseError"
        /\ flow[f].bridges = <<>>

\* C10: a hassio flow for an identity without entry never is at the link
\* form and calls neither get_api_key nor get_bridge_id: it shows the
\* hassio_confirm form and, on confirmation, creates an entry with the
\* announced identity, host, port and credential
C10_HassioConfirmsAndCreates ==
    /\ \A f \in Flows :
        flow[f].source = SOURCE_HASSIO =>
            /\ flow[f].pc \in {"hassio_confirm", "create_entry", "abort"}
            /\ flow[f].calls = {}
    /\ \A f \in Flows :
        CanStart(f) =>
            \A serial \in Serials, a \in Addrs, k \in Keys :
                LET id == normalize_bridge_id(serial)
                    out == async_step_hassio(Started(f, SOURCE_HASSIO), entries, serial,
                                             a[1], a[2], k)
                IN  FindEntry(entries, id) = 0
                        => /\ out.flow.pc = "hassio_confirm"
                           /\ out.entries = entries
                           /\ Session(out.flow) =
                                [host |-> a[1], port |-> a[2], bridge_id |-> id,
                                 unique_id |-> id, api_key |-> k, source |-> SOURCE_HASSIO]
    /\ \A f \in Flows :
        flow[f].pc = "hassio_confirm" =>
            /\ ResolutionAwaited(flow[f]) = {NoInput}
            /\ LET out == async_step_hassio_confirm(Resumed(f), entries, "submit", NoInput)
               IN  /\ out.flow.pc = "create_entry"
                   /\ out.flow.calls = {}
                   /\ out.entries =
                        Append(entries,
                               ConfigEntry(flow[f].unique_id, flow[f].bridge_id, SOURCE_HASSIO,
                                           EntryData(flow[f].host, flow[f].port,
                                                     flow[f].api_key)))

C10_Witness ==
    \E f \in Flows :
        /\ flow[f].source = SOURCE_HASSIO
        /\ flow[f].pc = "create_entry"
        /\ flow[f].calls = {}
        /\ \E i \in 1..Len(entries) :
            /\ entries[i].source = SOURCE_HASSIO
            /\ entries[i].unique_id = flow[f].unique_id
            /\ entries[i].title = flow[f].bridge_id

\* a flow that was given the id of its bridge before the link form: by the
\* choice of a discovered bridge, by an ssdp or by a hassio announcement
IdentitySupplied(fl) == fl.bridge_id # EmptyStr

\* C11: get_bridge_id is called only by a flow that has no bridge id when
\* get_api_key has returned a key; a flow that got its bridge id from a chosen
\* discovered bridge, from an ssdp announcement or from a hassio announcement
\* never calls get_bridge_id
C11_ResolvesOnlyUnknownIdentity ==
    \A f \in Flows :
        /\ "get_bridge_id" \in flow[f].calls
              => /\ flow[f].source \in {SOURCE_USER, SOURCE_REAUTH}
                 /\ "get_api_key" \in flow[f].calls
                 /\ flow[f].bridge_id # EmptyStr => flow[f].unique_id = flow[f].bridge_id
        /\ flow[f].source \in {SOURCE_SSDP, SOURCE_HASSIO} => "get_bridge_id" \notin flow[f].calls
        /\ (flow[f].pc = "link" /\ IdentitySupplied(flow[f]))
              => \A k \in Keys : \A b \in ResolutionOutcomes :
                    LET out == async_step_link(Resumed(f), entries, "submit", Ok(k), b)
                    IN  /\ "get_bridge_id" \notin out.flow.calls
                        /\ out.flow.bridge_id = flow[f].bridge_id
        /\ (flow[f].pc = "hassio_confirm" /\ IdentitySupplied(flow[f]))
              => \A b \in ResolutionOutcomes :
                    LET out == async_step_hassio_confirm(Resumed(f), entries, "submit", b)
                    IN  /\ "get_bridge_id" \notin out.flow.calls
                        /\ out.flow.bridge_id = flow[f].bridge_id

\* a user flow that chose a discovered bridge has created its entry without
\* a get_bridge_id call, and another flow has made the call
C11_Witness ==
    /\ \E f \in Flows :
        /\ flow[f].source = SOURCE_USER
        /\ flow[f].pc = "create_entry"
        /\ flow[f].unique_id = None
        /\ flow[f].calls = {"discovery", "get_api_key"}
    /\ \E g \in Flows :
        /\ "get_bridge_id" \in flow[g].calls
        /\ flow[g].pc = "create_entry"

\* what async_step_reauth does when flow instance f is started for entry i:
\* no call is made, the link form is shown, host and port are those of the
\* entry and the store is as it was
ReauthGoesToLink(f, i) ==
    LET out == async_step_reauth(Started(f, SOURCE_REAUTH), entries, entries[i].data)
    IN  /\ out.flow.pc = "link"
        /\ out.flow.calls = {}
        /\ out.flow.host = entries[i].data.host
        /\ out.flow.port = entries[i].data.port
        /\ out.entries = entries

ReauthNeverDiscovers ==
    \A f \in Flows :
        flow[f].source = SOURCE_REAUTH
            => /\ "discovery" \notin flow[f].calls
               /\ flow[f].pc \in {"link", "abort", "create_entry"}

\* C12 as stated: a reauth flow makes no discovery call, goes to the link
\* form with host and port of the entry, has its bridge id at that point, and
\* commits after a successful get_api_key without a get_bridge_id call
C12_ReauthIdentityKnown ==
    /\ ReauthNeverDiscovers
    /\ \A f \in Flows :
        /\ CanStart(f) => \A i \in 1..Len(entries) : ReauthGoesToLink(f, i)
        /\ flow[f].source = SOURCE_REAUTH
              => /\ "get_bridge_id" \notin flow[f].calls
                 /\ flow[f].pc = "link" => IdentitySupplied(flow[f])

\* what the commit of a reauth flow at the link form does with the key k
\* and the result b of get_bridge_id
ReauthCommits(f, k, b) ==
    LET out == async_step_link(Resumed(f), entries, "submit", Ok(k), b)
        i == IF Raised(b) THEN 0 ELSE FindEntry(entries, b.val)
    IN  /\ out.flow.calls = flow[f].calls \cup {"get_api_key", "get_bridge_id"}
        /\ IF Raised(b)
           THEN /\ out.flow.pc = "abort"
                /\ out.flow.reason = "no_bridges"
                /\ out.entries = entries
           ELSE IF i # 0
                THEN /\ out.flow.pc = "abort"
                     /\ out.flow.reason = "already_configured"
                     /\ out.entries =
                          [entries EXCEPT ![i].data =
                              EntryData(flow[f].host, flow[f].port, k)]
                ELSE /\ out.flow.pc = "create_entry"
                     /\ out.entries =
                          Append(entries,
                                 ConfigEntry(b.val, b.val, SOURCE_REAUTH,
                                             EntryData(flow[f].host, flow[f].port, k)))

\* C12 as amended: a reauth flow makes no discovery call and goes to the link
\* form with host and port of the entry, but it has no bridge id at that
\* point: after a successful get_api_key it calls get_bridge_id, aborts with
\* no_bridges when that call times out, aborts with already_configured after
\* writing host, port and the new key into the entry registered under the
\* returned id, and creates an entry when no entry is registered under it
C12_ReauthResolvesIdentity ==
    /\ ReauthNeverDiscovers
    /\ \A f \in Flows :
        /\ CanStart(f) => \A i \in 1..Len(entries) : ReauthGoesToLink(f, i)
        /\ (flow[f].source = SOURCE_REAUTH /\ flow[f].pc = "link")
              => /\ ~IdentitySupplied(flow[f])
                 /\ \A k \in Keys : \A b \in ResolutionOutcomes : ReauthCommits(f, k, b)

C12_Witness ==
    \E f \in Flows :
        /\ flow[f].source = SOURCE_REAUTH
        /\ flow[f].pc = "abort"
        /\ flow[f].reason = "already_configured"
        /\ flow[f].calls = {"get_api_key", "get_bridge_id"}
        /\ FindEntry(entries, flow[f].unique_id) # 0

\* the ssdp flow that is shown the link form: it has the announced identity,
\* host and port, has made no call and has left the store as it was
SsdpAtLink(out, id, a, es) ==
    /\ out.flow.pc = "link"
    /\ out.flow.bridge_id = id
    /\ out.flow.unique_id = id
    /\ out.flow.host = a[1]
    /\ out.flow.port = a[2]
    /\ out.flow.calls = {}
    /\ out.entries = es

\* C13 as stated: an ssdp flow for an identity aborts when it is started only
\* if hassio has set up an entry for the identity; in every other case, an
\* entry of another source included, it goes to the link form with its
\* bridge id set
C13_SsdpAbortsOnlyOnHassioRecord ==
    \A f \in Flows :
        CanStart(f) =>
            \A serial \in Serials, a \in Addrs :
                LET id == normalize_bridge_id(serial)
                    out == async_step_ssdp(Started(f, SOURCE_SSDP), entries, serial, a[1], a[2])
                IN  /\ out.flow.pc = "abort" => HassioRecords(entries, id) # {}
                    /\ HassioRecords(entries, id) = {} => SsdpAtLink(out, id, a, entries)

\* C13 as amended: an ssdp flow for an identity aborts with
\* already_configured when it is started whenever an entry is registered
\* under the identity: without a write when hassio has set up that entry,
\* after writing the announced host and port into it otherwise; only
\* without such an entry it goes to the link form with its bridge id set
C13_SsdpAbortsOnAnyRecord ==
    \A f \in Flows :
        CanStart(f) =>
            \A serial \in Serials, a \in Addrs :
                LET id == normalize_bridge_id(serial)
                    i == FindEntry(entries, id)
                    out == async_step_ssdp(Started(f, SOURCE_SSDP), entries, serial, a[1], a[2])
                IN  IF i = 0
                    THEN SsdpAtLink(out, id, a, entries)
                    ELSE /\ out.flow.pc = "abort"
                         /\ out.flow.reason = "already_configured"
                         /\ out.flow.calls = {}
                         /\ out.entries =
                              IF entries[i].source = SOURCE_HASSIO
                              THEN entries
                              ELSE [entries EXCEPT ![i].data.host = a[1],
                                                   ![i].data.port = a[2]]

\* an ssdp flow has aborted for an identity with an entry that hassio has not
\* set up
C13_Witness ==
    \E f \in Flows :
        /\ flow[f].source = SOURCE_SSDP
        /\ flow[f].pc = "abort"
        /\ flow[f].reason = "already_configured"
        /\ FindEntry(entries, flow[f].unique_id) # 0
        /\ HassioRecords(entries, flow[f].unique_id) = {}

\* C14: every identity that a flow looks up in the store or registers an
\* entry under has gone through normalize_bridge_id, whether it came from a
\* chosen discovered bridge, from an ssdp or hassio announcement or from
\* get_bridge_id, so that two identifiers that differ in case or separators
\* only never are two keys of the store
C14_IdentitiesAreNormalized ==
    /\ \A f \in Flows :
        /\ flow[f].bridge_id = normalize_bridge_id(flow[f].bridge_id)
        /\ flow[f].unique_id = normalize_bridge_id(flow[f].unique_id)
    /\ \A i \in 1..Len(entries) :
        /\ entries[i].unique_id = normalize_bridge_id(entries[i].unique_id)
        /\ entries[i].title = normalize_bridge_id(entries[i].title)
    /\ \A i, j \in 1..Len(entries) :
        normalize_bridge_id(entries[i].title) = normalize_bridge_id(entries[j].title)
            => entries[i].title = entries[j].title

\* the forms a flow instance waits at
SuspendPoints == {"user", "manual_input", "link", "hassio_confirm"}

\* C15: a handler invocation that leaves its flow instance at a form (user,
\* manual_input, link, hassio_confirm) does not write to the store; hence a
\* flow instance that waits at a form has made no write since it was
\* started, and abandoning it there leaves no trace in the store
C15_NoWriteBeforeCommit ==
    [][\A f \in Flows :
          (flow'[f] # flow[f] /\ flow'[f].pc \in SuspendPoints) => entries' = entries]_vars

\* flow instances wait at the hassio_confirm form and, after a failed
\* get_api_key, at the link form, and the store is empty as it was
C15_Witness ==
    /\ entries = <<>>
    /\ \E f \in Flows : flow[f].pc = "hassio_confirm" /\ flow[f].api_key \in Keys
    /\ \E g \in Flows : flow[g].pc = "link" /\ "get_api_key" \in flow[g].calls

\* C16: submitting the deconz_devices form stores, as the options of the
\* entry, the options it had overridden by the submitted values: a submitted
\* option has the submitted value, an option that is not submitted keeps its
\* value; the step makes no call and leaves host, port and api key of the
\* entry as they are
C16_OptionsMergeSubmission ==
    \A f \in Flows :
        flow[f].pc = "deconz_devices" =>
            \A user_input \in Submissions :
                LET i == flow[f].config_entry
                    out == async_step_deconz_devices(flow[f], entries, user_input)
                    prior == entries[i].options
                    new == out.entries[i].options
                IN  /\ out.flow.pc = "create_entry"
                    /\ out.flow.calls = {}
                    /\ DOMAIN new = DOMAIN prior \cup DOMAIN user_input
                    /\ \A k \in DOMAIN user_input : new[k] = user_input[k]
                    /\ \A k \in DOMAIN prior \ DOMAIN user_input : new[k] = prior[k]
                    /\ out.entries = [entries EXCEPT ![i].options = new]

\* an options flow has stored the three options of the form in an entry
\* that had another option before, and that option is as it was
C16_Witness ==
    \E f \in Flows :
        /\ flow[f].pc = "create_entry"
        /\ DOMAIN entries[flow[f].config_entry].options
                = SchemaOptions \cup {CONF_MASTER_GATEWAY}
        /\ entries[flow[f].config_entry].options[CONF_MASTER_GATEWAY] = TRUE
        /\ entries[flow[f].config_entry].options = flow[f].options

AbortReasons == {"no_bridges", "already_configured"}

\* the except clauses of get_api_key and of deconz_discovery
RecoveredFailures ==
    {"get_api_key: LinkButtonNotPressed",
     "get_api_key: ResponseError, RequestError, TimeoutError",
     "discovery: TimeoutError, ResponseError"}

\* C17: a flow that has aborted has done so with no_bridges or with
\* already_configured; a handler invocation in which get_api_key or
\* deconz_discovery has failed does not abort: it shows the link form, or the
\* manual_input form
C17_AbortReasons ==
    \A f \in Flows :
        /\ flow[f].pc = "abort" => flow[f].reason \in AbortReasons
        /\ flow[f].pc # "abort" => flow[f].reason = ""
        /\ flow[f].caught \in RecoveredFailures
              => flow[f].pc = IF flow[f].caught = "discovery: TimeoutError, ResponseError"
                              THEN "manual_input"
                              ELSE "link"

\* a flow has aborted with no_bridges after a failed discovery, and a flow
\* is at the link form after a failed get_api_key
C17_Witness ==
    /\ \E f \in Flows :
        /\ flow[f].pc = "abort"
        /\ flow[f].reason = "no_bridges"
        /\ "discovery" \in flow[f].calls
    /\ \E g \in Flows :
        /\ flow[g].pc = "link"
        /\ flow[g].caught = "get_api_key: ResponseError, RequestError, TimeoutError"

\* a failed get_api_key leaves flow instance f at the link form with its
\* session, and the store as it was
AbsorbsFailure(f) ==
    \A e \in NegotiationErrors :
        LET out == async_step_link(Resumed(f), entries, "submit", Raise(e), NoInput)
        IN  /\ out.flow.pc = "link"
            /\ Session(out.flow) = Session(flow[f])
            /\ out.entries = entries

\* C18: every failed get_api_key leaves a flow that waits at the link form
\* at that form with its session, whatever the number of failures before;
\* and when the user keeps submitting and get_api_key does not fail for
\* ever, the flow ends: with an entry created, or aborted with
\* already_configured or no_bridges
C18_LinkRetriesThenTerminates ==
    /\ [](\A f \in Flows : flow[f].pc = "link" => AbsorbsFailure(f))
    /\ \A f \in Flows :
        (flow[f].pc = "link")
            ~> (\/ flow[f].pc = "create_entry"
                \/ flow[f].pc = "abort" /\ flow[f].reason \in AbortReasons)

\* a flow is at the link form after a failed get_api_key, and a flow before
\* it has gone from the link form to the creation of its entry
C18_Witness ==
    \E f, g \in Flows :
        /\ flow[f].pc = "link"
        /\ flow[f].errors # ""
        /\ "get_api_key" \in flow[f].calls
        /\ flow[g].pc = "create_entry"
        /\ "get_api_key" \in flow[g].calls

\* options that an entry may have when an announcement arrives
EntryOptions == StoredOptions \cup {[k \in SchemaOptions |-> TRUE]}

\* C19: an ssdp flow that is started for an identity whose entry hassio has
\* not set up writes the announced host and port into that entry and nothing
\* else: the api key and the options of the entry are as they were; the flow
\* aborts with already_configured and has made no get_api_key call
C19_SsdpRefreshesAddressOnly ==
    \A f \in Flows :
        CanStart(f) =>
            \A serial \in Serials, a \in Addrs, o \in EntryOptions :
                LET i == FindEntry(entries, normalize_bridge_id(serial))
                    es == IF i = 0 THEN entries ELSE [entries EXCEPT ![i].options = o]
                    out == async_step_ssdp(Started(f, SOURCE_SSDP), es, serial, a[1], a[2])
                IN  (i # 0 /\ es[i].source # SOURCE_HASSIO)
                        => /\ out.flow.pc = "abort"
                           /\ out.flow.reason = "already_configured"
                           /\ "get_api_key" \notin out.flow.calls
                           /\ out.entries[i].data =
                                EntryData(a[1], a[2], es[i].data.api_key)
                           /\ out.entries[i].options = o
                           /\ out.entries[i].unique_id = es[i].unique_id
                           /\ out.entries[i].source = es[i].source
                           /\ SameRecords(out.entries, es, (1..Len(es)) \ {i})

\* an ssdp flow has aborted without a call for an identity with an entry
\* that a user flow has created, and the entry has the key of that flow
C19_Witness ==
    \E f \in Flows :
        /\ flow[f].source = SOURCE_SSDP
        /\ flow[f].pc = "abort"
        /\ flow[f].reason = "already_configured"
        /\ flow[f].calls = {}
        /\ \E i \in 1..Len(entries) :
            /\ i = FindEntry(entries, flow[f].unique_id)
            /\ entries[i].source = SOURCE_USER
            /\ entries[i].data.api_key \in Keys
            /\ entries[i].options = NoOptions

\* the entry that the handler invocation with the result out has created
Created(out, es) == out.entries[Len(es) + 1]

\* C20: every entry that a flow creates has a key that get_api_key has
\* returned in that flow for the host and port of the entry, or a key that a
\* hassio announcement has delivered together with that host and port; no
\* flow creates an entry without a key
C20_CreatedWithCredential ==
    /\ \A i \in 1..Len(entries) :
        /\ entries[i].data.api_key \in Keys
        /\ <<entries[i].data.host, entries[i].data.port>> \in Addrs
    /\ \A f \in Flows :
        /\ flow[f].pc = "link" =>
              /\ flow[f].source # SOURCE_HASSIO
              /\ \A k \in Keys : \A b \in ResolutionAwaited(flow[f]) :
                    LET out == async_step_link(Resumed(f), entries, "submit", Ok(k), b)
                    IN  out.flow.pc = "create_entry"
                            => /\ Len(out.entries) = Len(entries) + 1
                               /\ "get_api_key" \in out.flow.calls
                               /\ Created(out, entries).data =
                                    EntryData(flow[f].host, flow[f].port, k)
        /\ flow[f].pc = "hassio_confirm" =>
              /\ flow[f].source = SOURCE_HASSIO
              /\ flow[f].api_key \in Keys
              /\ \A b \in ResolutionAwaited(flow[f]) :
                    LET out == async_step_hassio_confirm(Resumed(f), entries, "submit", b)
                    IN  out.flow.pc = "create_entry"
                            => /\ Len(out.entries) = Len(entries) + 1
                               /\ Created(out, entries).data =
                                    EntryData(flow[f].host, flow[f].port, flow[f].api_key)
        /\ flow[f].pc \in {"user", "manual_input"} => flow[f].api_key = Unset
        /\ CanStart(f) =>
              \A serial \in Serials, a \in Addrs, k \in Keys :
                  LET out == async_step_hassio(Started(f, SOURCE_HASSIO), entries, serial,
                                               a[1], a[2], k)
                  IN  out.flow.pc = "hassio_confirm"
                          => /\ out.entries = entries
                             /\ out.flow.host = a[1]
                             /\ out.flow.port = a[2]
                             /\ out.flow.api_key = k

\* the store has an entry that a hassio flow has created with the announced
\* key and an entry that a flow has created after a get_api_key call
C20_Witness ==
    /\ \E i \in 1..Len(entries) :
        /\ entries[i].source = SOURCE_HASSIO
        /\ entries[i].data.api_key \in Keys
    /\ \E j \in 1..Len(entries) :
        /\ entries[j].source \in {SOURCE_USER, SOURCE_SSDP}
        /\ entries[j].data.api_key \in Keys
    /\ \E f \in Flows :
        /\ flow[f].pc = "create_entry"
        /\ "get_api_key" \in flow[f].calls

====
